---- MODULE Spec2Model ----
(***************************************************************************)
(* Pool lifecycle and executor dispute engine of rhombus-tech/POC.         *)
(*                                                                         *)
(* The repository holds two sketches of the same manager:                  *)
(*   src/Manager.rs  struct Manager     (SHA-256 hashes, constant clock)   *)
(*   src/Rsa.rs      struct ManagerRSA  (operator registry, system clock,  *)
(*                                       concatenation in place of hashes) *)
(* The variable prog says which of the two programs is running; every      *)
(* handler of either program is one action.  A handler that panics         *)
(* unwinds before it has written anything; the panic message is recorded   *)
(* in last.result and the manager is left as it was.                       *)
(*                                                                         *)
(* Strings and byte vectors are sequences of byte values.  Option<T> is a  *)
(* sequence of length 0 (None) or 1 (Some).                                *)
(***************************************************************************)
EXTENDS Integers, Sequences, FiniteSets, TLC

VARIABLES
    prog,                       \* "Manager" or "ManagerRSA"
    contracts,                  \* HashMap id -> Contract / ContractInfo
    operators,                  \* HashMap address -> Operator
    operator_list,              \* Vec<String> (ManagerRSA only)
    operator_incremental_hash,  \* Vec<u8>
    now,                        \* the system clock read by current_timestamp()
    last,                       \* the most recent call and how it ended
    accepted                    \* history: the <<id, response, signature>> of every
                                \* executor_response that succeeded

vars ==
    <<prog, contracts, operators, operator_list, operator_incremental_hash, now, last, accepted>>

(***************************************************************************)
(* Program constants                                                       *)
(***************************************************************************)
POOL_SIZE == 3

TIMEOUT_INTERVAL == 15

(***************************************************************************)
(* Bounds of the model                                                     *)
(***************************************************************************)
\* The system clock stops advancing once it has reached MaxTime.
MaxTime == 16

\* At most MaxOperators operators are registered.
MaxOperators == 2

(***************************************************************************)
(* Bytes, strings, options                                                 *)
(***************************************************************************)
Repeat(b, n) == [i \in 1..n |-> b]

None == <<>>

Some(x) == <<x>>

IsSome(o) == Len(o) = 1

unwrap(o) == o[1]

RECURSIVE Flatten(_)
Flatten(ss) == IF ss = <<>> THEN <<>> ELSE Head(ss) \o Flatten(Tail(ss))

\* id.to_le_bytes() of an integer of n bytes
RECURSIVE to_le_bytes(_, _)
to_le_bytes(id, n) ==
    IF n = 0 THEN <<>> ELSE <<id % 256>> \o to_le_bytes(id \div 256, n - 1)

\* "Creation-Attest"
CreationAttest == <<67, 114, 101, 97, 116, 105, 111, 110, 45, 65, 116, 116, 101, 115, 116>>

\* "Challenge-Response"
ChallengeResponse ==
    <<67, 104, 97, 108, 108, 101, 110, 103, 101, 45, 82, 101, 115, 112, 111, 110, 115, 101>>

\* Sha256::new() ... finalize(): an ideal digest, distinct for distinct inputs
\* and never a byte string itself (256 is no byte).
Sha256(bytes) == <<256>> \o bytes

(***************************************************************************)
(* Inputs                                                                  *)
(***************************************************************************)
IDS == {7}

OpA == <<65>>

OpB == <<66>>

OpAB == <<65, 66>>

OperatorAddrs == {OpA, OpB, OpAB}

PoolOperatorChoices == {<<OpA, OpB, OpAB>>, <<OpB, OpA, OpAB>>}

PoolAddrs == {<<80>>}

\* whoever sends a withdraw, and whoever is to receive it
Parties == PoolAddrs \cup {<<82>>}

CodeHashes == {Repeat(18, 32)}

Messages == {<<1, 2, 3>>, <<4>>}

Responses == {<<4, 5>>}

Amounts == {100}

TeeSignatureAddrs == {<<116>>}

TeeEncryptionKeys == {Repeat(0, 4)}

\* a registry epoch that no registration history of the run produces
ForeignEpoch == <<255>>

\* a signing identity that belongs to no operator
Stranger == <<120>>

(***************************************************************************)
(* Signatures: a signature is the pair of what was signed and by whom.     *)
(***************************************************************************)
Sign(hash, signer) == [hash |-> hash, signer |-> signer]

NoSignature == Sign(<<>>, <<>>)

\* what a real verifier answers
ValidSignature(hash, signature, signer) == signature = Sign(hash, signer)

(***************************************************************************)
(* The record of the most recent call                                      *)
(***************************************************************************)
Ok == "Ok"

Call(op, id, result) ==
    [op |-> op, id |-> id, result |-> result,
     caller |-> <<>>, receiver |-> <<>>, response |-> <<>>, signature |-> NoSignature]

NoCall == Call("new", 0, Ok)

\* the message of a panic raised by Option::unwrap() on None
UnwrapOnNone == "called Option::unwrap() on a None value"

(***************************************************************************)
(* src/Manager.rs                                                          *)
(***************************************************************************)
Manager_get_current_time == 1000000

Manager_new ==
    /\ contracts = <<>>
    /\ operators = <<>>
    /\ operator_list = <<>>
    /\ operator_incremental_hash = Repeat(0, 32)

Manager_hash_message(message) == Sha256(message)

Manager_calculate_signed_hash(id, incremental_tx_hash, pool_address, code_hash, pool_operators) ==
    Sha256(CreationAttest \o to_le_bytes(id, 16) \o incremental_tx_hash \o pool_address
           \o code_hash \o Flatten(pool_operators))

Manager_calculate_executor_signed_hash(id, incremental_tx_hash, response) ==
    Sha256(ChallengeResponse \o to_le_bytes(id, 16) \o incremental_tx_hash \o response)

Manager_verify_signature(hash, signature, operator) == TRUE

Manager_Contract(creation_operator, code_hash, pool_operators) ==
    [phase |-> "Creation",
     incremental_tx_hash |-> operator_incremental_hash,
     pool_address |-> None,
     creation_operator |-> creation_operator,
     operators |-> [i \in 1..POOL_SIZE |-> Some(pool_operators[i])],
     executive_operator |-> 0,
     code_hash |-> code_hash,
     fallback_phase |-> "None",
     watchdogs_challenged |-> 0,
     exec_challenge_hash |-> <<>>,
     watchdog_challenge_hash |-> <<>>,
     challenged_watchdogs |-> [i \in 1..POOL_SIZE |-> 0],
     deadline |-> Manager_get_current_time + TIMEOUT_INTERVAL]

Manager_init_creation(id, creation_operator, code_hash, pool_operators) ==
    /\ prog = "Manager"
    /\ contracts' = (id :> Manager_Contract(creation_operator, code_hash, pool_operators))
                        @@ contracts
    /\ last' = Call("init_creation", id, Ok)
    /\ UNCHANGED <<prog, accepted, operators, operator_list, operator_incremental_hash, now>>

\* the checks of finalize_creation, in the order the code makes them
Manager_finalize_creation_result(id, pool_address, pool_operators, signature) ==
    IF id \notin DOMAIN contracts THEN "Contract not found"
    ELSE IF contracts[id].phase # "Creation" THEN "Contract is not in the creation phase!"
    ELSE IF contracts[id].deadline < Manager_get_current_time
        THEN "The creation deadline has expired!"
    ELSE IF ~Manager_verify_signature(
                Manager_calculate_signed_hash(id, contracts[id].incremental_tx_hash,
                    pool_address, contracts[id].code_hash, pool_operators),
                signature, contracts[id].creation_operator)
        THEN "Wrong signature for creation!"
    ELSE Ok

Manager_finalize_creation(id, pool_address, pool_operators, signature) ==
    /\ prog = "Manager"
    /\ LET result == Manager_finalize_creation_result(id, pool_address, pool_operators, signature)
       IN /\ contracts' =
                IF result = Ok
                THEN [contracts EXCEPT ![id].pool_address = Some(pool_address),
                                       ![id].phase = "Executing",
                                       ![id].operators =
                                           [i \in 1..POOL_SIZE |-> Some(pool_operators[i])]]
                ELSE contracts
          /\ last' = [Call("finalize_creation", id, result)
                        EXCEPT !.signature = signature]
    /\ UNCHANGED <<prog, accepted, operators, operator_list, operator_incremental_hash, now>>

Manager_deposit_to_contract_result(id, amount) ==
    IF id \notin DOMAIN contracts THEN "Contract not found"
    ELSE IF contracts[id].phase # "Executing" THEN "Contract is not in the executing phase!"
    ELSE Ok

Manager_deposit_to_contract(id, amount) ==
    /\ prog = "Manager"
    /\ last' = Call("deposit_to_contract", id, Manager_deposit_to_contract_result(id, amount))
    /\ UNCHANGED <<prog, accepted, contracts, operators, operator_list, operator_incremental_hash, now>>

Manager_withdraw_result(id, receiver, amount) ==
    IF id \notin DOMAIN contracts THEN "Contract not found"
    ELSE IF ~IsSome(contracts[id].pool_address) THEN UnwrapOnNone
    ELSE IF receiver # unwrap(contracts[id].pool_address) THEN "Sender is not the pool address!"
    ELSE Ok

\* caller is the sender of the request; withdraw has no parameter for it
Manager_withdraw(caller, id, receiver, amount) ==
    /\ prog = "Manager"
    /\ last' = [Call("withdraw", id, Manager_withdraw_result(id, receiver, amount))
                   EXCEPT !.caller = caller, !.receiver = receiver]
    /\ UNCHANGED <<prog, accepted, contracts, operators, operator_list, operator_incremental_hash, now>>

Manager_challenge_executor_result(id, message) ==
    IF id \notin DOMAIN contracts THEN "Contract not found"
    ELSE IF contracts[id].phase # "Executing" THEN "Contract is not in the executing phase!"
    ELSE Ok

Manager_challenge_executor(id, message) ==
    /\ prog = "Manager"
    /\ LET result == Manager_challenge_executor_result(id, message)
       IN /\ contracts' =
                IF result = Ok
                THEN [contracts EXCEPT ![id].phase = "ChallengeExecutor",
                                       ![id].deadline = Manager_get_current_time + TIMEOUT_INTERVAL,
                                       ![id].exec_challenge_hash = Manager_hash_message(message)]
                ELSE contracts
          /\ last' = Call("challenge_executor", id, result)
    /\ UNCHANGED <<prog, accepted, operators, operator_list, operator_incremental_hash, now>>

\* the identity executor_response checks the signature against
Manager_executor_signer(id) == unwrap(contracts[id].operators[contracts[id].executive_operator + 1])

Manager_executor_response_result(id, response, signature) ==
    IF id \notin DOMAIN contracts THEN "Contract not found"
    ELSE IF contracts[id].phase # "ChallengeExecutor" THEN "No active challenge to respond to!"
    ELSE IF contracts[id].deadline < Manager_get_current_time THEN "Response deadline has expired!"
    ELSE IF ~IsSome(contracts[id].operators[contracts[id].executive_operator + 1])
        THEN UnwrapOnNone
    ELSE IF ~Manager_verify_signature(
                Manager_calculate_executor_signed_hash(id, contracts[id].incremental_tx_hash,
                                                       response),
                signature, Manager_executor_signer(id))
        THEN "Wrong signature for executor response!"
    ELSE Ok

Manager_executor_response(id, response, signature) ==
    /\ prog = "Manager"
    /\ LET result == Manager_executor_response_result(id, response, signature)
       IN /\ contracts' =
                IF result = Ok THEN [contracts EXCEPT ![id].phase = "Executing"] ELSE contracts
          /\ last' = [Call("executor_response", id, result)
                        EXCEPT !.response = response, !.signature = signature]
          /\ accepted' =
                IF result = Ok THEN accepted \cup {<<id, response, signature>>} ELSE accepted
    /\ UNCHANGED <<prog, operators, operator_list, operator_incremental_hash, now>>

\* the response signatures a caller may present over the pool's snapshot: by
\* the executive operator and by a stranger
Manager_ResponseSignatures(id, response) ==
    IF id \notin DOMAIN contracts
       \/ ~IsSome(contracts[id].operators[contracts[id].executive_operator + 1])
    THEN {NoSignature}
    ELSE LET c == contracts[id]
             h(epoch) == Manager_calculate_executor_signed_hash(id, epoch, response)
         IN  {Sign(h(c.incremental_tx_hash), s) : s \in {Manager_executor_signer(id), Stranger}}

\* the creation signatures a caller may present for pool id: by the creation
\* operator over the pool's own snapshot, over the registry's current hash
\* and over a foreign epoch
Manager_CreationSignatures(id, pool_address, pool_operators) ==
    IF id \notin DOMAIN contracts THEN {NoSignature}
    ELSE LET c == contracts[id]
             h(epoch) == Manager_calculate_signed_hash(id, epoch, pool_address,
                                                       c.code_hash, pool_operators)
         IN  {Sign(h(e), c.creation_operator) :
                 e \in {c.incremental_tx_hash, operator_incremental_hash, ForeignEpoch}}

(***************************************************************************)
(* src/Rsa.rs                                                              *)
(***************************************************************************)
current_timestamp == now

ManagerRSA_new ==
    /\ operators = <<>>
    /\ operator_list = <<>>
    /\ operator_incremental_hash = <<>>
    /\ contracts = <<>>

ManagerRSA_verify_attestation(tee_signature_address, tee_encryption_key, attestation_signature) ==
    TRUE

ManagerRSA_hash_incremental(previous_hash, operator_address) == previous_hash \o operator_address

ManagerRSA_hash_message(message) == <<>> \o message

ManagerRSA_create_signed_hash(tag, id, incremental_hash, pool_address, code_hash, pool_operators) ==
    tag \o to_le_bytes(id, 4) \o incremental_hash \o pool_address \o code_hash
        \o Flatten(pool_operators)

\* executor_response calls create_signed_hash with four arguments: the tag,
\* the id, the snapshot and the response
ManagerRSA_create_executor_signed_hash(tag, id, incremental_hash, response) ==
    tag \o to_le_bytes(id, 4) \o incremental_hash \o response

ManagerRSA_verify_signature(signed_hash, signature, signer_address) == TRUE

\* register without its check of the registry
ManagerRSA_register_result_NoCheck(operator_address) == Ok

ManagerRSA_register_result(operator_address) ==
    IF operator_address \in DOMAIN operators THEN "Operator already registered!" ELSE Ok

ManagerRSA_register(operator_address, tee_signature_address, tee_encryption_key, attestation_signature) ==
    /\ prog = "ManagerRSA"
    /\ operator_address \in DOMAIN operators \/ Len(operator_list) < MaxOperators
    /\ LET result == ManagerRSA_register_result(operator_address)
       IN /\ IF result = Ok
             THEN /\ ManagerRSA_verify_attestation(tee_signature_address, tee_encryption_key,
                                                   attestation_signature)
                  /\ operators' =
                        (operator_address :>
                            [initialized |-> TRUE,
                             tee_signature_address |-> tee_signature_address,
                             tee_encryption_key |-> tee_encryption_key]) @@ operators
                  /\ operator_list' = Append(operator_list, operator_address)
                  /\ operator_incremental_hash' =
                        ManagerRSA_hash_incremental(operator_incremental_hash, operator_address)
             ELSE UNCHANGED <<operators, operator_list, operator_incremental_hash>>
          /\ last' = Call("register", 0, result)
    /\ UNCHANGED <<prog, accepted, contracts, now>>

ManagerRSA_ContractInfo(creation_operator, code_hash) ==
    [phase |-> "Creation",
     incremental_tx_hash |-> operator_incremental_hash,
     pool_address |-> None,
     creation_operator |-> creation_operator,
     operators |-> [i \in 1..POOL_SIZE |-> None],
     executive_operator |-> 0,
     code_hash |-> code_hash,
     fallback_phase |-> "None",
     watchdogs_challenged |-> 0,
     exec_challenge_hash |-> <<>>,
     watchdog_challenge_hash |-> <<>>,
     challenged_watchdogs |-> [i \in 1..POOL_SIZE |-> 0],
     deadline |-> current_timestamp + TIMEOUT_INTERVAL]

ManagerRSA_init_creation_result(creation_operator, code_hash, free_id) ==
    IF free_id \in DOMAIN contracts THEN "Contract with this ID already exists!"
    ELSE IF creation_operator \notin DOMAIN operators THEN "Creation operator does not exist!"
    ELSE Ok

ManagerRSA_init_creation(creation_operator, code_hash, free_id) ==
    /\ prog = "ManagerRSA"
    /\ LET result == ManagerRSA_init_creation_result(creation_operator, code_hash, free_id)
       IN /\ contracts' =
                IF result = Ok
                THEN (free_id :> ManagerRSA_ContractInfo(creation_operator, code_hash))
                        @@ contracts
                ELSE contracts
          /\ last' = Call("init_creation", free_id, result)
    /\ UNCHANGED <<prog, accepted, operators, operator_list, operator_incremental_hash, now>>

ManagerRSA_finalize_creation_result(id, pool_address, pool_operators, signature) ==
    IF id \notin DOMAIN contracts THEN UnwrapOnNone
    ELSE IF contracts[id].creation_operator \notin DOMAIN operators THEN UnwrapOnNone
    ELSE IF ~ManagerRSA_verify_signature(
                ManagerRSA_create_signed_hash(CreationAttest, id,
                    contracts[id].incremental_tx_hash, pool_address, contracts[id].code_hash,
                    pool_operators),
                signature, operators[contracts[id].creation_operator].tee_signature_address)
        THEN "Wrong signature for creation!"
    ELSE Ok

\* finalize_creation without its write of pool_address
ManagerRSA_finalize_creation_NoAddress(id, pool_address, pool_operators, signature) ==
    /\ prog = "ManagerRSA"
    /\ LET result == ManagerRSA_finalize_creation_result(id, pool_address, pool_operators,
                                                         signature)
       IN /\ contracts' =
                IF result = Ok
                THEN [contracts EXCEPT ![id].phase = "Executing",
                                       ![id].operators =
                                           [i \in 1..POOL_SIZE |-> Some(pool_operators[i])]]
                ELSE contracts
          /\ last' = [Call("finalize_creation", id, result)
                        EXCEPT !.signature = signature]
    /\ UNCHANGED <<prog, accepted, operators, operator_list, operator_incremental_hash, now>>

ManagerRSA_finalize_creation(id, pool_address, pool_operators, signature) ==
    /\ prog = "ManagerRSA"
    /\ LET result == ManagerRSA_finalize_creation_result(id, pool_address, pool_operators,
                                                         signature)
       IN /\ contracts' =
                IF result = Ok
                THEN [contracts EXCEPT ![id].pool_address = Some(pool_address),
                                       ![id].phase = "Executing",
                                       ![id].operators =
                                           [i \in 1..POOL_SIZE |-> Some(pool_operators[i])]]
                ELSE contracts
          /\ last' = [Call("finalize_creation", id, result)
                        EXCEPT !.signature = signature]
    /\ UNCHANGED <<prog, accepted, operators, operator_list, operator_incremental_hash, now>>

\* deposit_to_contract without its phase check
ManagerRSA_deposit_to_contract_result_NoPhaseCheck(id, value) ==
    IF id \notin DOMAIN contracts THEN UnwrapOnNone ELSE Ok

ManagerRSA_deposit_to_contract_result(id, value) ==
    IF id \notin DOMAIN contracts THEN UnwrapOnNone
    ELSE IF contracts[id].phase # "Executing" THEN "Contract is not in phase EXECUTING!"
    ELSE Ok

ManagerRSA_deposit_to_contract(id, value) ==
    /\ prog = "ManagerRSA"
    /\ last' = Call("deposit_to_contract", id, ManagerRSA_deposit_to_contract_result(id, value))
    /\ UNCHANGED <<prog, accepted, contracts, operators, operator_list, operator_incremental_hash, now>>

ManagerRSA_withdraw_result(id, blocknumber, receiver, value) ==
    IF id \notin DOMAIN contracts THEN UnwrapOnNone
    ELSE IF ~IsSome(contracts[id].pool_address) THEN UnwrapOnNone
    ELSE IF unwrap(contracts[id].pool_address) # receiver THEN "Sender is not the pool address!"
    ELSE Ok

\* caller is the sender of the request; withdraw has no parameter for it
ManagerRSA_withdraw(caller, id, blocknumber, receiver, value) ==
    /\ prog = "ManagerRSA"
    /\ last' = [Call("withdraw", id, ManagerRSA_withdraw_result(id, blocknumber, receiver, value))
                   EXCEPT !.caller = caller, !.receiver = receiver]
    /\ UNCHANGED <<prog, accepted, contracts, operators, operator_list, operator_incremental_hash, now>>

ManagerRSA_challenge_executor_result(id, message) ==
    IF id \notin DOMAIN contracts THEN UnwrapOnNone
    ELSE IF contracts[id].phase # "Executing" THEN "Contract is not in phase EXECUTING!"
    ELSE Ok

\* challenge_executor without its write of the deadline
ManagerRSA_challenge_executor_StaleDeadline(id, message) ==
    /\ prog = "ManagerRSA"
    /\ LET result == ManagerRSA_challenge_executor_result(id, message)
       IN /\ contracts' =
                IF result = Ok
                THEN [contracts EXCEPT ![id].phase = "ChallengeExecutor",
                                       ![id].watchdogs_challenged = 0,
                                       ![id].exec_challenge_hash = ManagerRSA_hash_message(message)]
                ELSE contracts
          /\ last' = Call("challenge_executor", id, result)
    /\ UNCHANGED <<prog, accepted, operators, operator_list, operator_incremental_hash, now>>

ManagerRSA_challenge_executor(id, message) ==
    /\ prog = "ManagerRSA"
    /\ LET result == ManagerRSA_challenge_executor_result(id, message)
       IN /\ contracts' =
                IF result = Ok
                THEN [contracts EXCEPT ![id].phase = "ChallengeExecutor",
                                       ![id].deadline = current_timestamp + TIMEOUT_INTERVAL,
                                       ![id].watchdogs_challenged = 0,
                                       ![id].exec_challenge_hash = ManagerRSA_hash_message(message)]
                ELSE contracts
          /\ last' = Call("challenge_executor", id, result)
    /\ UNCHANGED <<prog, accepted, operators, operator_list, operator_incremental_hash, now>>

\* the address of the executive operator, as executor_response looks it up
ManagerRSA_exec_operator_addr(id) ==
    contracts[id].operators[contracts[id].executive_operator + 1]

\* executor_response refusing a response that arrives at the deadline itself
ManagerRSA_executor_response_result_DeadlineExclusive(id, response, signature) ==
    IF id \notin DOMAIN contracts THEN UnwrapOnNone
    ELSE IF contracts[id].phase # "ChallengeExecutor"
        THEN "Challenge can only be answered if unresolved!"
    ELSE IF contracts[id].deadline <= current_timestamp THEN "Response deadline has expired!"
    ELSE IF ~IsSome(ManagerRSA_exec_operator_addr(id)) THEN UnwrapOnNone
    ELSE IF unwrap(ManagerRSA_exec_operator_addr(id)) \notin DOMAIN operators THEN UnwrapOnNone
    ELSE IF ~ManagerRSA_verify_signature(
                ManagerRSA_create_executor_signed_hash(ChallengeResponse, id,
                    contracts[id].incremental_tx_hash, response),
                signature,
                operators[unwrap(ManagerRSA_exec_operator_addr(id))].tee_signature_address)
        THEN "Wrong signature for executor response!"
    ELSE Ok

\* executor_response without its deadline check
ManagerRSA_executor_response_result_NoDeadline(id, response, signature) ==
    IF id \notin DOMAIN contracts THEN UnwrapOnNone
    ELSE IF contracts[id].phase # "ChallengeExecutor"
        THEN "Challenge can only be answered if unresolved!"
    ELSE IF ~IsSome(ManagerRSA_exec_operator_addr(id)) THEN UnwrapOnNone
    ELSE IF unwrap(ManagerRSA_exec_operator_addr(id)) \notin DOMAIN operators THEN UnwrapOnNone
    ELSE IF ~ManagerRSA_verify_signature(
                ManagerRSA_create_executor_signed_hash(ChallengeResponse, id,
                    contracts[id].incremental_tx_hash, response),
                signature,
                operators[unwrap(ManagerRSA_exec_operator_addr(id))].tee_signature_address)
        THEN "Wrong signature for executor response!"
    ELSE Ok

ManagerRSA_executor_response_result(id, response, signature) ==
    IF id \notin DOMAIN contracts THEN UnwrapOnNone
    ELSE IF contracts[id].phase # "ChallengeExecutor"
        THEN "Challenge can only be answered if unresolved!"
    ELSE IF contracts[id].deadline < current_timestamp THEN "Response deadline has expired!"
    ELSE IF ~IsSome(ManagerRSA_exec_operator_addr(id)) THEN UnwrapOnNone
    ELSE IF unwrap(ManagerRSA_exec_operator_addr(id)) \notin DOMAIN operators THEN UnwrapOnNone
    ELSE IF ~ManagerRSA_verify_signature(
                ManagerRSA_create_executor_signed_hash(ChallengeResponse, id,
                    contracts[id].incremental_tx_hash, response),
                signature,
                operators[unwrap(ManagerRSA_exec_operator_addr(id))].tee_signature_address)
        THEN "Wrong signature for executor response!"
    ELSE Ok

ManagerRSA_executor_response(id, response, signature) ==
    /\ prog = "ManagerRSA"
    /\ LET result == ManagerRSA_executor_response_result(id, response, signature)
       IN /\ contracts' =
                IF result = Ok THEN [contracts EXCEPT ![id].phase = "Executing"] ELSE contracts
          /\ last' = [Call("executor_response", id, result)
                        EXCEPT !.response = response, !.signature = signature]
          /\ accepted' =
                IF result = Ok THEN accepted \cup {<<id, response, signature>>} ELSE accepted
    /\ UNCHANGED <<prog, operators, operator_list, operator_incremental_hash, now>>

\* SystemTime::now() moves on between two calls
ClockSteps == {TIMEOUT_INTERVAL, TIMEOUT_INTERVAL + 1}

ClockTick(d) ==
    /\ prog = "ManagerRSA"
    /\ now + d <= MaxTime
    /\ now' = now + d
    /\ last' = Call("clock", 0, Ok)
    /\ UNCHANGED <<prog, accepted, contracts, operators, operator_list, operator_incremental_hash>>

\* the signing identity of a registered operator, or nobody's
ManagerRSA_signer(address) ==
    IF address \in DOMAIN operators THEN operators[address].tee_signature_address ELSE Stranger

ManagerRSA_CreationSignatures(id, pool_address, pool_operators) ==
    IF id \notin DOMAIN contracts THEN {NoSignature}
    ELSE LET c == contracts[id]
             h(epoch) == ManagerRSA_create_signed_hash(CreationAttest, id, epoch, pool_address,
                                                       c.code_hash, pool_operators)
         IN  {Sign(h(e), ManagerRSA_signer(c.creation_operator)) :
                 e \in {c.incremental_tx_hash, operator_incremental_hash, ForeignEpoch}}

ManagerRSA_ResponseSignatures(id, response) ==
    IF id \notin DOMAIN contracts \/ ~IsSome(ManagerRSA_exec_operator_addr(id))
    THEN {NoSignature}
    ELSE LET c == contracts[id]
             signer == ManagerRSA_signer(unwrap(ManagerRSA_exec_operator_addr(id)))
             h(epoch) == ManagerRSA_create_executor_signed_hash(ChallengeResponse, id, epoch,
                                                                response)
         IN  {Sign(h(c.incremental_tx_hash), s) : s \in {signer, Stranger}}

(***************************************************************************)
(* The two programs                                                        *)
(***************************************************************************)
Init ==
    /\ prog \in {"Manager", "ManagerRSA"}
    /\ IF prog = "Manager" THEN Manager_new ELSE ManagerRSA_new
    /\ now = 0
    /\ last = NoCall
    /\ accepted = {}

Next ==
    \/ \E id \in IDS, co \in OperatorAddrs, ch \in CodeHashes, po \in PoolOperatorChoices :
          Manager_init_creation(id, co, ch, po)
    \/ \E id \in IDS, pa \in PoolAddrs, po \in PoolOperatorChoices :
          \E sig \in Manager_CreationSignatures(id, pa, po) :
              Manager_finalize_creation(id, pa, po, sig)
    \/ \E id \in IDS, amount \in Amounts : Manager_deposit_to_contract(id, amount)
    \/ \E caller \in Parties, id \in IDS, receiver \in Parties, amount \in Amounts :
          Manager_withdraw(caller, id, receiver, amount)
    \/ \E id \in IDS, message \in Messages : Manager_challenge_executor(id, message)
    \/ \E id \in IDS, response \in Responses :
          \E sig \in Manager_ResponseSignatures(id, response) :
              Manager_executor_response(id, response, sig)
    \/ \E a \in OperatorAddrs, t \in TeeSignatureAddrs, k \in TeeEncryptionKeys :
          ManagerRSA_register(a, t, k, <<>>)
    \/ \E co \in OperatorAddrs, ch \in CodeHashes, id \in IDS :
          ManagerRSA_init_creation(co, ch, id)
    \/ \E id \in IDS, pa \in PoolAddrs, po \in PoolOperatorChoices :
          \E sig \in ManagerRSA_CreationSignatures(id, pa, po) :
              ManagerRSA_finalize_creation(id, pa, po, sig)
    \/ \E id \in IDS, value \in Amounts : ManagerRSA_deposit_to_contract(id, value)
    \/ \E caller \in Parties, id \in IDS, receiver \in Parties, value \in Amounts :
          ManagerRSA_withdraw(caller, id, 0, receiver, value)
    \/ \E id \in IDS, message \in Messages : ManagerRSA_challenge_executor(id, message)
    \/ \E id \in IDS, response \in Responses :
          \E sig \in ManagerRSA_ResponseSignatures(id, response) :
              ManagerRSA_executor_response(id, response, sig)
    \/ \E d \in ClockSteps : ClockTick(d)

Spec == Init /\ [][Next]_vars

(***************************************************************************)
(* The timeout sweep.  Neither program has it: no handler of Manager or    *)
(* ManagerRSA writes Phase::Crashed.  It is written here as the design     *)
(* describes it and is part of SpecTimeout only, which serves to ask what  *)
(* the handlers of the two programs do with a crashed pool.                *)
(***************************************************************************)
CurrentTime == IF prog = "Manager" THEN Manager_get_current_time ELSE current_timestamp

check_timeout_result(id) ==
    IF id \notin DOMAIN contracts THEN "PoolNotFound"
    ELSE IF contracts[id].phase \notin {"ChallengeExecutor", "ChallengeWatchdog"} THEN "WrongPhase"
    ELSE IF ~(CurrentTime > contracts[id].deadline) THEN "DeadlineNotExpired"
    ELSE Ok

check_timeout(id) ==
    /\ LET result == check_timeout_result(id)
       IN /\ contracts' =
                IF result = Ok THEN [contracts EXCEPT ![id].phase = "Crashed"] ELSE contracts
          /\ last' = Call("check_timeout", id, result)
    /\ UNCHANGED <<prog, accepted, operators, operator_list, operator_incremental_hash, now>>

NextTimeout ==
    \/ Next
    \/ \E id \in IDS : check_timeout(id)

SpecTimeout == Init /\ [][NextTimeout]_vars

(***************************************************************************)
(* Vocabulary of the claims                                                *)
(***************************************************************************)
WrongPhaseErrors ==
    {"Contract is not in the executing phase!", "Contract is not in phase EXECUTING!",
     "Contract is not in the creation phase!", "No active challenge to respond to!",
     "Challenge can only be answered if unresolved!"}

DeadlineExpiredErrors == {"The creation deadline has expired!", "Response deadline has expired!"}

UnauthorizedCallerErrors == {"Sender is not the pool address!"}

\* the call recorded in last was made on an existing pool
OnPool(l) == l.id \in DOMAIN contracts

deposit_result(id, amount) ==
    IF prog = "Manager" THEN Manager_deposit_to_contract_result(id, amount)
    ELSE ManagerRSA_deposit_to_contract_result(id, amount)

challenge_executor_result(id, message) ==
    IF prog = "Manager" THEN Manager_challenge_executor_result(id, message)
    ELSE ManagerRSA_challenge_executor_result(id, message)

\* the payload a creation signature for pool id has to cover
CreationPayload(id, incremental_tx_hash, pool_address, pool_operators) ==
    IF prog = "Manager"
    THEN Manager_calculate_signed_hash(id, incremental_tx_hash, pool_address,
                                       contracts[id].code_hash, pool_operators)
    ELSE ManagerRSA_create_signed_hash(CreationAttest, id, incremental_tx_hash, pool_address,
                                       contracts[id].code_hash, pool_operators)

\* signature is a signature of the creation operator of pool id over payload
CreationSignatureValid(id, payload, signature) ==
    IF prog = "Manager"
    THEN ValidSignature(payload, signature, contracts[id].creation_operator)
    ELSE /\ contracts[id].creation_operator \in DOMAIN operators
         /\ ValidSignature(payload, signature,
                           operators[contracts[id].creation_operator].tee_signature_address)

\* signature is a signature of the executive operator of pool id over the
\* response payload of the pool
ExecutorSignatureValid(id, response, signature) ==
    IF prog = "Manager"
    THEN ValidSignature(
            Manager_calculate_executor_signed_hash(id, contracts[id].incremental_tx_hash,
                                                   response),
            signature, Manager_executor_signer(id))
    ELSE /\ IsSome(ManagerRSA_exec_operator_addr(id))
         /\ unwrap(ManagerRSA_exec_operator_addr(id)) \in DOMAIN operators
         /\ ValidSignature(
                ManagerRSA_create_executor_signed_hash(ChallengeResponse, id,
                    contracts[id].incremental_tx_hash, response),
                signature,
                operators[unwrap(ManagerRSA_exec_operator_addr(id))].tee_signature_address)

(***************************************************************************)
(* Claims                                                                  *)
(***************************************************************************)

\* C1: a deposit on a pool succeeds exactly when the pool's phase is
\* Executing; in every other phase it fails with a wrong-phase error; in
\* either case the call leaves every pool as it was.
C1_DepositOnlyWhenExecuting ==
    [][(last'.op = "deposit_to_contract" /\ OnPool(last'))
        => /\ contracts' = contracts
           /\ (last'.result = Ok) <=> (contracts[last'.id].phase = "Executing")
           /\ (contracts[last'.id].phase # "Executing") => (last'.result \in WrongPhaseErrors)]_vars

\* C1 witness: a deposit was refused, for the phase, on a pool under an open
\* executor challenge.
C1_Witness ==
    /\ last.op = "deposit_to_contract"
    /\ OnPool(last)
    /\ last.result \in WrongPhaseErrors
    /\ contracts[last.id].phase = "ChallengeExecutor"

\* C2: a withdraw on a pool succeeds only when the pool's phase is Executing;
\* under an open executor challenge it fails with a wrong-phase error.
\* (withdraw writes nothing, so the pool's phase after the call is its phase
\* at the call.)
C2_WithdrawOnlyWhenExecuting ==
    (last.op = "withdraw" /\ OnPool(last))
        => /\ (last.result = Ok) => (contracts[last.id].phase = "Executing")
           /\ (contracts[last.id].phase = "ChallengeExecutor")
                 => (last.result \in WrongPhaseErrors)

\* C3: withdraw is authorized by the caller: on a pool in Executing it
\* succeeds, whoever the receiver, when the caller is the pool address, and
\* it fails with an unauthorized-caller error whenever the caller is not the
\* pool address.
C3_WithdrawAuthorizedByCaller ==
    (last.op = "withdraw" /\ OnPool(last) /\ contracts[last.id].phase = "Executing")
        => /\ (last.caller = unwrap(contracts[last.id].pool_address)) => (last.result = Ok)
           /\ (last.caller # unwrap(contracts[last.id].pool_address))
                 => (last.result \in UnauthorizedCallerErrors)

\* C4: finalize_creation succeeds only on a pool in Creation; on a pool in
\* any other phase it fails and leaves the pool (phase, pool_address,
\* operators) as it was.
C4_FinalizeOnlyInCreation ==
    [][(last'.op = "finalize_creation" /\ OnPool(last')
            /\ contracts[last'.id].phase # "Creation")
        => /\ last'.result # Ok
           /\ contracts' = contracts]_vars

\* C5: finalize_creation on a pool in Creation fails with a deadline-expired
\* error when the time is past the deadline set by init_creation, leaving the
\* pool in Creation with no pool_address; up to and at the deadline it
\* succeeds when the signature is valid.
C5_FinalizeDeadline ==
    [][(last'.op = "finalize_creation" /\ OnPool(last')
            /\ contracts[last'.id].phase = "Creation")
        => /\ (CurrentTime > contracts[last'.id].deadline)
                 => /\ last'.result \in DeadlineExpiredErrors
                    /\ contracts'[last'.id].phase = "Creation"
                    /\ contracts'[last'.id].pool_address = None
           /\ (/\ CurrentTime <= contracts[last'.id].deadline
               /\ \E pa \in PoolAddrs, po \in PoolOperatorChoices :
                     CreationSignatureValid(last'.id,
                         CreationPayload(last'.id, contracts[last'.id].incremental_tx_hash,
                                         pa, po),
                         last'.signature))
                 => last'.result = Ok]_vars

\* C6: a creation signature finalizes a pool only if it is a signature over
\* the payload built from the pool's own incremental_tx_hash snapshot (and
\* the pool address and operators being set): a signature over another
\* epoch's payload finalizes nothing.
C6_FinalizeBoundToSnapshot ==
    (last.op = "finalize_creation" /\ OnPool(last) /\ last.result = Ok)
        => last.signature.hash =
              CreationPayload(last.id, contracts[last.id].incremental_tx_hash,
                              unwrap(contracts[last.id].pool_address),
                              [i \in 1..POOL_SIZE |-> unwrap(contracts[last.id].operators[i])])

\* C7: challenge_executor on a pool in Executing succeeds and moves it to
\* ChallengeExecutor; an executor_response on a pool in ChallengeExecutor, up
\* to and at the deadline, with a valid signature of the executive operator,
\* succeeds and moves the pool back to Executing, where a deposit and a new
\* challenge_executor are accepted again.
C7_ExecutorRoundTrip ==
    [][/\ (last'.op = "challenge_executor" /\ OnPool(last')
              /\ contracts[last'.id].phase = "Executing")
          => /\ last'.result = Ok
             /\ contracts'[last'.id].phase = "ChallengeExecutor"
       /\ (last'.op = "executor_response" /\ OnPool(last')
              /\ contracts[last'.id].phase = "ChallengeExecutor"
              /\ CurrentTime <= contracts[last'.id].deadline
              /\ ExecutorSignatureValid(last'.id, last'.response, last'.signature))
          => /\ last'.result = Ok
             /\ contracts'[last'.id].phase = "Executing"
       /\ \A id \in IDS :
            (last'.op = "executor_response" /\ last'.id = id /\ last'.result = Ok)
            => /\ \A amount \in Amounts : deposit_result(id, amount)' = Ok
               /\ \A message \in Messages : challenge_executor_result(id, message)' = Ok]_vars

\* C7 witness: an executor_response with a valid signature was accepted at
\* the very deadline of the challenge, and the pool is in Executing again.
C7_Witness ==
    /\ last.op = "executor_response"
    /\ last.result = Ok
    /\ OnPool(last)
    /\ contracts[last.id].phase = "Executing"
    /\ CurrentTime = contracts[last.id].deadline
    /\ ExecutorSignatureValid(last.id, last.response, last.signature)

\* C8: an executor_response on a pool in ChallengeExecutor at a time past the
\* deadline fails with a deadline-expired error, valid signature or not, and
\* leaves the pool as it was: in ChallengeExecutor, with the same deadline
\* and exec_challenge_hash.
C8_LateResponseRejected ==
    [][(last'.op = "executor_response" /\ OnPool(last')
            /\ contracts[last'.id].phase = "ChallengeExecutor"
            /\ CurrentTime > contracts[last'.id].deadline)
        => /\ last'.result \in DeadlineExpiredErrors
           /\ contracts' = contracts
           /\ contracts'[last'.id].phase = "ChallengeExecutor"]_vars

\* C8 witness: a response carrying a valid signature of the executive
\* operator was refused for the deadline.
C8_Witness ==
    /\ last.op = "executor_response"
    /\ last.result \in DeadlineExpiredErrors
    /\ OnPool(last)
    /\ contracts[last.id].phase = "ChallengeExecutor"
    /\ CurrentTime > contracts[last.id].deadline
    /\ ExecutorSignatureValid(last.id, last.response, last.signature)

\* the executor challenge on pool id is open and its deadline has passed
Expired(id) ==
    /\ id \in DOMAIN contracts
    /\ contracts[id].phase = "ChallengeExecutor"
    /\ CurrentTime > contracts[id].deadline

\* C9: a pool in ChallengeExecutor whose deadline has passed can be moved to
\* Crashed by an operation of the program (the timeout check a watcher
\* calls), which is what lets every dispute end in Executing or Crashed.
C9_ExpiredChallengeCanCrash ==
    \A id \in IDS :
        Expired(id) => ENABLED (Next /\ contracts'[id].phase = "Crashed")

\* C10: Crashed is terminal: on a pool whose phase is Crashed no operation
\* (init_creation with the same id, finalize_creation, deposit, withdraw,
\* challenge_executor, executor_response) succeeds or changes a field of the
\* pool's record, and deposit, withdraw and challenge_executor fail with a
\* wrong-phase error.
C10_CrashedIsTerminal ==
    [][\A id \in DOMAIN contracts :
          (contracts[id].phase = "Crashed" /\ last'.id = id)
          => /\ id \in DOMAIN contracts'
             /\ contracts'[id] = contracts[id]
             /\ (last'.op \in {"init_creation", "finalize_creation", "deposit_to_contract",
                               "withdraw", "challenge_executor", "executor_response"})
                   => (last'.result # Ok)
             /\ (last'.op \in {"deposit_to_contract", "withdraw", "challenge_executor"})
                   => (last'.result \in WrongPhaseErrors)]_vars

\* the left fold of hash_incremental over the registrations, from a start value
RECURSIVE FoldRegistrations(_, _)
FoldRegistrations(start, addresses) ==
    IF addresses = <<>> THEN start
    ELSE FoldRegistrations(ManagerRSA_hash_incremental(start, Head(addresses)), Tail(addresses))

\* the sequences of at most MaxOperators distinct operator addresses
RegistrationOrders ==
    {order \in UNION {[1..n -> OperatorAddrs] : n \in 0..MaxOperators} :
        \A i, j \in DOMAIN order : order[i] = order[j] => i = j}

\* C11: after the successful registrations [a1,...,an] the registry's
\* incremental hash is the left fold hash_n = H(hash_{n-1} || a_n) started
\* from the 32-byte zero value, and the same operators registered in another
\* order give another value.
C11_IncrementalHashIsFoldFromZero ==
    /\ (last.op = "register" /\ last.result = Ok)
          => operator_incremental_hash = FoldRegistrations(Repeat(0, 32), operator_list)
    /\ \A s, t \in RegistrationOrders :
          ({s[i] : i \in DOMAIN s} = {t[i] : i \in DOMAIN t} /\ s # t)
          => FoldRegistrations(Repeat(0, 32), s) # FoldRegistrations(Repeat(0, 32), t)

\* C12: a register call with an address that is already registered fails with
\* the already-registered error and leaves the operator records, the ordered
\* operator list and the incremental hash as they were; every registered
\* address stands in the operator list exactly once.
C12_ReRegisterLeavesRegistryUnchanged ==
    [][/\ \A a \in OperatorAddrs, t \in TeeSignatureAddrs, k \in TeeEncryptionKeys :
             (ManagerRSA_register(a, t, k, <<>>) /\ a \in DOMAIN operators)
             => /\ last'.result = "Operator already registered!"
                /\ UNCHANGED <<operators, operator_list, operator_incremental_hash>>
       /\ \A i, j \in DOMAIN operator_list' : operator_list'[i] = operator_list'[j] => i = j
       /\ {operator_list'[i] : i \in DOMAIN operator_list'} = DOMAIN operators']_vars

C12_Witness ==
    /\ last.op = "register"
    /\ last.result = "Operator already registered!"
    /\ Len(operator_list) = MaxOperators

\* C13: init_creation succeeds only if the id is not yet used by a pool and
\* creation_operator is a registered operator; on an id that is in use it fails
\* and the pool's record stays as it was.
C13_InitCreationNeverOverwrites ==
    [][\A id \in IDS, co \in OperatorAddrs, ch \in CodeHashes :
          ((\E po \in PoolOperatorChoices : Manager_init_creation(id, co, ch, po))
              \/ ManagerRSA_init_creation(co, ch, id))
          => /\ (last'.result = Ok) => (id \notin DOMAIN contracts /\ co \in DOMAIN operators)
             /\ (id \in DOMAIN contracts)
                   => (last'.result # Ok /\ contracts'[id] = contracts[id])]_vars

\* C14: on a pool in ChallengeExecutor a watchdog challenge can be issued,
\* taking the pool to ChallengeWatchdog with fallback_phase = ChallengeExecutor,
\* and from there a watchdog response can bring it back to ChallengeExecutor
\* with the exec_challenge_hash it had and fallback_phase reset to None.
C14_NestedDispute ==
    \A id \in DOMAIN contracts :
        /\ (contracts[id].phase = "ChallengeExecutor")
              => ENABLED (/\ Next
                          /\ contracts'[id].phase = "ChallengeWatchdog"
                          /\ contracts'[id].fallback_phase = "ChallengeExecutor"
                          /\ contracts'[id].exec_challenge_hash = contracts[id].exec_challenge_hash)
        /\ (contracts[id].phase = "ChallengeWatchdog"
                /\ contracts[id].fallback_phase = "ChallengeExecutor")
              => ENABLED (/\ Next
                          /\ contracts'[id].phase = "ChallengeExecutor"
                          /\ contracts'[id].fallback_phase = "None"
                          /\ contracts'[id].exec_challenge_hash = contracts[id].exec_challenge_hash)

\* C15: in every pool record pool_address is set if and only if the pool's
\* phase is neither None nor Creation.
C15_PoolAddressIffPastCreation ==
    \A id \in DOMAIN contracts :
        IsSome(contracts[id].pool_address) <=> contracts[id].phase \notin {"None", "Creation"}

C15_Witness ==
    \E id \in DOMAIN contracts :
        /\ prog = "ManagerRSA"
        /\ contracts[id].phase = "ChallengeExecutor"
        /\ IsSome(contracts[id].pool_address)

\* C16: for every pool whose phase has left Creation, executive_operator is a
\* slot index below POOL_SIZE, the slot it names is filled, and the address in
\* that slot is a registered operator, so that executor_response finds the
\* executive operator's signing identity.
C16_ExecutiveOperatorResolvable ==
    \A id \in DOMAIN contracts :
        (contracts[id].phase \notin {"None", "Creation"})
        => /\ contracts[id].executive_operator < POOL_SIZE
           /\ IsSome(contracts[id].operators[contracts[id].executive_operator + 1])
           /\ unwrap(contracts[id].operators[contracts[id].executive_operator + 1])
                 \in DOMAIN operators

\* the messages of the panics the handlers raise (panic!, expect and unwrap):
\* a panic unwinds the caller, the handlers have no error return
Panics ==
    {"Contract not found", "Contract is not in the creation phase!",
     "The creation deadline has expired!", "Wrong signature for creation!",
     "Contract is not in the executing phase!", "Sender is not the pool address!",
     "No active challenge to respond to!", "Response deadline has expired!",
     "Wrong signature for executor response!", "Operator already registered!",
     "Contract with this ID already exists!", "Creation operator does not exist!",
     "Contract is not in phase EXECUTING!",
     "Challenge can only be answered if unresolved!", UnwrapOnNone}

\* C17: every call ends in success or in an error that is returned to the
\* caller, never in an abort, and a call that ends in an error leaves the
\* registry and every pool record as they were before it.
C17_ErrorsAreReturnedNotAborts ==
    [][(last'.result # Ok)
          => /\ last'.result \notin Panics
             /\ UNCHANGED <<contracts, operators, operator_list, operator_incremental_hash>>]_vars

\* the hash of a challenge message, as the running program computes it
hash_message(message) ==
    IF prog = "Manager" THEN Manager_hash_message(message) ELSE ManagerRSA_hash_message(message)

\* C18: a successful challenge_executor(id, message) at time now sets the
\* pool's deadline to now + TIMEOUT_INTERVAL, its exec_challenge_hash to the
\* hash of the message and its watchdogs_challenged to 0, moves the phase to
\* ChallengeExecutor and changes no other field of the pool.
C18_ChallengeExecutorWrites ==
    [][\A id \in IDS, message \in Messages :
          ((Manager_challenge_executor(id, message) \/ ManagerRSA_challenge_executor(id, message))
              /\ last'.result = Ok)
          => contracts'[id] =
                [contracts[id] EXCEPT !.phase = "ChallengeExecutor",
                                      !.deadline = CurrentTime + TIMEOUT_INTERVAL,
                                      !.exec_challenge_hash = hash_message(message),
                                      !.watchdogs_challenged = 0]]_vars

C18_Witness ==
    /\ prog = "ManagerRSA"
    /\ last.op = "challenge_executor"
    /\ last.result = Ok
    /\ now > 0
    /\ contracts[last.id].deadline = now + TIMEOUT_INTERVAL
    /\ contracts[last.id].exec_challenge_hash = ManagerRSA_hash_message(<<1, 2, 3>>)

\* C19: exec_challenge_hash is non-empty only while an executor challenge is
\* open (phase ChallengeExecutor, or ChallengeWatchdog with fallback_phase
\* ChallengeExecutor); a successful executor_response clears it, so it is empty
\* whenever the pool is in Executing.
C19_ChallengeHashClearedOnResponse ==
    \A id \in DOMAIN contracts :
        /\ (contracts[id].exec_challenge_hash # <<>>)
              => \/ contracts[id].phase = "ChallengeExecutor"
                 \/ /\ contracts[id].phase = "ChallengeWatchdog"
                    /\ contracts[id].fallback_phase = "ChallengeExecutor"
        /\ (contracts[id].phase = "Executing") => (contracts[id].exec_challenge_hash = <<>>)

\* how executor_response(id, response, signature) would end in the current state
executor_response_result(id, response, signature) ==
    IF prog = "Manager" THEN Manager_executor_response_result(id, response, signature)
    ELSE ManagerRSA_executor_response_result(id, response, signature)

\* C20: no call changes a pool's incremental_tx_hash once init_creation has
\* set it, and the payload of a response does not involve the challenge
\* message; so a (response, signature) pair that executor_response has accepted
\* for a pool is accepted again whenever a later executor challenge of that
\* pool is open and its deadline has not passed, whatever message that
\* challenge carries.
C20_AcceptedResponseReplays ==
    [][/\ \A id \in DOMAIN contracts :
             /\ id \in DOMAIN contracts'
             /\ contracts'[id].incremental_tx_hash = contracts[id].incremental_tx_hash
       /\ \A pair \in accepted :
             (/\ pair[1] \in DOMAIN contracts
              /\ contracts[pair[1]].phase = "ChallengeExecutor"
              /\ CurrentTime <= contracts[pair[1]].deadline)
             => executor_response_result(pair[1], pair[2], pair[3]) = Ok]_vars

====
